---- MODULE Spec2Model ----
(***************************************************************************)
(* Model of the Quant_Trading_Project data pipeline:                       *)
(*   src/src/data_fetching.py       fetch_crypto_data_binance (pagination) *)
(*   src/src/data_processing.py     process_crypto_data (cleaning stage)   *)
(*   src/src/feature_engineering.py process_features and its indicators    *)
(*                                                                         *)
(* A table (pandas DataFrame) is a function from column keys to sequences  *)
(* of cells, all of one length.  A column key is a pair <<name, window>>   *)
(* (window 0 for the columns without one), e.g. <<"SMA", 20>> for SMA_20.  *)
(* A cell is a float: NaN, +inf, -inf, an exact rational, or a symbolic    *)
(* term denoting an exact real (ln, sqrt, or arithmetic too large for      *)
(* TLC's integers).  Positions are 1-based: row t of the code is t+1 here. *)
(***************************************************************************)
EXTENDS Integers, Sequences, FiniteSets, TLC


\* ------------------------------------------------------------ program constants

\* compute_z_score / compute_volatility: window=20 (process_features passes none)
ZWindow == 20
\* compute_bollinger_bands: num_std=2
NumStd == 2

\* ------------------------------------------------------------------ floats

\* Largest numerator/denominator kept as an exact rational cell; beyond it a
\* value is kept as the term of the operation that produced it, with exact
\* operands in full and operands that are terms themselves by their sign.
Big == 30000

NaN == [k |-> "nan"]
PosInf == [k |-> "inf"]
NegInf == [k |-> "ninf"]

RECURSIVE GCD(_, _)
GCD(a, b) == IF b = 0 THEN a ELSE GCD(b, a % b)

AbsInt(i) == IF i < 0 THEN -i ELSE i

\* The rational n/d (d > 0) in lowest terms.
Rat(n, d) ==
    LET g == GCD(AbsInt(n), d)
    IN  [k |-> "num", n |-> n \div g, d |-> d \div g]

Int2Cell(i) == [k |-> "num", n |-> i, d |-> 1]

Zero == Int2Cell(0)

IsNaN(c) == c.k = "nan"
IsNum(c) == c.k = "num"
IsZero(c) == c.k = "num" /\ c.n = 0

Fits(c) == AbsInt(c.n) <= Big /\ c.d <= Big

\* Sign of a cell: 1, -1, or 0 (zero, NaN, or a sum of terms of opposite sign,
\* which the program never compares on the modelled inputs).
RECURSIVE Sign(_)
Sign(c) ==
    CASE c.k = "num" -> (IF c.n > 0 THEN 1 ELSE IF c.n < 0 THEN -1 ELSE 0)
      [] c.k = "inf" -> 1
      [] c.k = "ninf" -> -1
      [] c.k = "nan" -> 0
      [] c.op = "sign" -> c.a.n
      [] c.op = "sqrt" -> 1
      [] c.op = "ln" -> (IF c.a.n > c.a.d THEN 1 ELSE -1)
      [] c.op = "neg" -> -Sign(c.a)
      [] c.op \in {"mul", "div"} -> Sign(c.a) * Sign(c.b)
      [] OTHER -> (IF Sign(c.a) = Sign(c.b) THEN Sign(c.a) ELSE 0)

Operand(x) ==
    IF x.k = "sym"
    THEN [k |-> "sym", op |-> "sign", a |-> Int2Cell(Sign(x)), b |-> Zero]
    ELSE x

Sym(op, a, b) == [k |-> "sym", op |-> op, a |-> Operand(a), b |-> Operand(b)]

Neg(a) ==
    CASE a.k = "nan" -> NaN
      [] a.k = "inf" -> NegInf
      [] a.k = "ninf" -> PosInf
      [] a.k = "num" -> [k |-> "num", n |-> -a.n, d |-> a.d]
      [] OTHER -> Sym("neg", a, a)

\* IEEE-754 addition on the exact values.
Add(a, b) ==
    CASE a.k = "nan" \/ b.k = "nan" -> NaN
      [] a.k = "inf" -> (IF b.k = "ninf" THEN NaN ELSE PosInf)
      [] a.k = "ninf" -> (IF b.k = "inf" THEN NaN ELSE NegInf)
      [] b.k = "inf" -> PosInf
      [] b.k = "ninf" -> NegInf
      [] a.k = "num" /\ b.k = "num" ->
            LET r == Rat(a.n * b.d + b.n * a.d, a.d * b.d)
            IN  IF Fits(r) THEN r ELSE Sym("add", a, b)
      [] OTHER -> Sym("add", a, b)

Sub(a, b) == Add(a, Neg(b))

Mul(a, b) ==
    CASE a.k = "nan" \/ b.k = "nan" -> NaN
      [] a.k \in {"inf", "ninf"} \/ b.k \in {"inf", "ninf"} ->
            (IF Sign(a) * Sign(b) = 0 THEN NaN
             ELSE IF Sign(a) * Sign(b) > 0 THEN PosInf ELSE NegInf)
      [] a.k = "num" /\ b.k = "num" ->
            LET r == Rat(a.n * b.n, a.d * b.d)
            IN  IF Fits(r) THEN r ELSE Sym("mul", a, b)
      [] OTHER -> Sym("mul", a, b)

\* IEEE-754 division: x/0 is +-inf, 0/0 is NaN, x/inf is 0.
Div(a, b) ==
    CASE a.k = "nan" \/ b.k = "nan" -> NaN
      [] a.k \in {"inf", "ninf"} ->
            (IF b.k \in {"inf", "ninf"} THEN NaN
             ELSE IF Sign(a) * Sign(b) >= 0 THEN a ELSE Neg(a))
      [] b.k \in {"inf", "ninf"} -> Zero
      [] IsZero(b) ->
            (IF Sign(a) = 0 THEN NaN
             ELSE IF Sign(a) > 0 THEN PosInf ELSE NegInf)
      [] a.k = "num" /\ b.k = "num" ->
            LET r == IF b.n > 0 THEN Rat(a.n * b.d, a.d * b.n)
                     ELSE Rat(-(a.n * b.d), a.d * (-b.n))
            IN  IF Fits(r) THEN r ELSE Sym("div", a, b)
      [] OTHER -> Sym("div", a, b)

\* np.abs
Abs(a) == IF Sign(a) < 0 THEN Neg(a) ELSE a

\* np.log: ln 1 = 0, ln 0 = -inf, ln of a negative is NaN.
Ln(a) ==
    CASE a.k = "nan" -> NaN
      [] a.k = "inf" -> PosInf
      [] a.k = "ninf" -> NaN
      [] a.k = "num" ->
            (IF a.n < 0 THEN NaN
             ELSE IF a.n = 0 THEN NegInf
             ELSE IF a.n = a.d THEN Zero
             ELSE Sym("ln", a, a))
      [] OTHER -> Sym("ln", a, a)

\* np.sqrt of a non-negative value.
Sqrt(a) ==
    CASE a.k = "nan" -> NaN
      [] a.k = "inf" -> PosInf
      [] a.k = "ninf" -> NaN
      [] a.k = "num" ->
            (IF a.n < 0 THEN NaN
             ELSE IF a.n = 0 THEN Zero
             ELSE Sym("sqrt", a, a))
      [] OTHER -> Sym("sqrt", a, a)

\* a < b on rationals (False when either side is NaN, as in IEEE-754).
Less(a, b) == Sign(Sub(b, a)) > 0 /\ ~IsNaN(a) /\ ~IsNaN(b)

\* ------------------------------------------------------------------ series

\* Series.shift(1): every value one row later, NaN in the first row.
shift(xs) == [t \in 1..Len(xs) |-> IF t = 1 THEN NaN ELSE xs[t - 1]]

\* Series.diff(): x[t] - x[t-1], NaN in the first row.
diff(xs) == [t \in 1..Len(xs) |-> Sub(xs[t], shift(xs)[t])]

\* Series.dropna(): the non-NaN values, in order.
dropna_series(xs) == SelectSeq(xs, LAMBDA c : ~IsNaN(c))

RECURSIVE SumCells(_)
SumCells(xs) == IF xs = <<>> THEN Zero ELSE Add(xs[1], SumCells(Tail(xs)))

HasNaN(xs) == \E t \in 1..Len(xs) : IsNaN(xs[t])

\* Mean of a full window.
MeanOf(win) == Div(SumCells(win), Int2Cell(Len(win)))

\* Sum of squared deviations from the mean.
SumSqDev(win) ==
    LET m == MeanOf(win)
    IN  SumCells([t \in 1..Len(win) |-> Mul(Sub(win[t], m), Sub(win[t], m))])

\* Standard deviation of a window with ddof delta degrees of freedom
\* (pandas rolling std: ddof 1; scipy zscore: ddof 0).  n - ddof = 0 divides
\* 0 by 0 and yields NaN.
StdOf(win, ddof) == Sqrt(Div(SumSqDev(win), Int2Cell(Len(win) - ddof)))

\* Series.rolling(window=w): the trailing window ending at row t, present
\* once w observations exist (min_periods defaults to the window size).
Window(xs, w, t) == SubSeq(xs, t - w + 1, t)

\* .rolling(window=w).mean()
rolling_mean(xs, w) ==
    [t \in 1..Len(xs) |->
        IF t < w \/ HasNaN(Window(xs, w, t)) THEN NaN
        ELSE MeanOf(Window(xs, w, t))]

\* The population deviation (ddof = 0) in place of the sample one.
rolling_std_population(xs, w) ==
    [t \in 1..Len(xs) |->
        IF t < w \/ HasNaN(Window(xs, w, t)) THEN NaN
        ELSE StdOf(Window(xs, w, t), 0)]

\* .rolling(window=w).std()  (sample standard deviation, ddof = 1)
rolling_std(xs, w) ==
    [t \in 1..Len(xs) |->
        IF t < w \/ HasNaN(Window(xs, w, t)) THEN NaN
        ELSE StdOf(Window(xs, w, t), 1)]

\* Wilder's smoothing, a = 1 / w, in place of a = 2 / (w + 1).
RECURSIVE ewm_mean_wilder(_, _)
ewm_mean_wilder(xs, w) ==
    IF Len(xs) <= 1 THEN xs
    ELSE LET prev == ewm_mean_wilder(SubSeq(xs, 1, Len(xs) - 1), w)
             a == Rat(1, w)
         IN  Append(prev, Add(Mul(a, xs[Len(xs)]),
                              Mul(Sub(Int2Cell(1), a), prev[Len(prev)])))

\* .ewm(span=w, adjust=False).mean(): y[0] = x[0],
\* y[t] = a x[t] + (1 - a) y[t-1] with a = 2 / (w + 1).
RECURSIVE ewm_mean(_, _)
ewm_mean(xs, w) ==
    IF Len(xs) <= 1 THEN xs
    ELSE LET prev == ewm_mean(SubSeq(xs, 1, Len(xs) - 1), w)
             a == Rat(2, w + 1)
         IN  Append(prev, Add(Mul(a, xs[Len(xs)]),
                              Mul(Sub(Int2Cell(1), a), prev[Len(prev)])))

\* scipy.stats.zscore(a): (a - mean) / population std over the whole array;
\* returns an array of the length of its argument.
zscore(xs) ==
    LET m == MeanOf(xs)
        s == StdOf(xs, 0)
    IN  [t \in 1..Len(xs) |-> Div(Sub(xs[t], m), s)]

\* ------------------------------------------------------------------ tables

\* A DataFrame: n rows, col maps each column key to its n cells, err names
\* the exception raised while building it ("" when none was).
K(name) == <<name, 0>>

Columns(df) == DOMAIN df.col

Has(df, keys) == keys \subseteq Columns(df)

Raise(df, e) == [df EXCEPT !.err = e]

\* df[c] = xs for a Series xs of the table's own index.
With(df, c, xs) ==
    [df EXCEPT !.col = [k \in Columns(df) \cup {c} |-> IF k = c THEN xs ELSE df.col[k]]]

\* df[c] = xs for a bare array xs: pandas raises ValueError("Length of
\* values does not match length of index") unless the lengths agree.
WithArray(df, c, xs) ==
    IF Len(xs) = df.n THEN With(df, c, xs) ELSE Raise(df, "ValueError")

\* A drop whose result is thrown away.
drop_nothing(df, keys) == df

\* df.drop(columns=keys)
drop(df, keys) ==
    [df EXCEPT !.col = [k \in Columns(df) \ keys |-> df.col[k]]]

RowHasNaN(df, t) == \E c \in Columns(df) : IsNaN(df.col[c][t])

\* df.dropna(): the rows without a NaN in any column (inf is not NaN).
dropna(df) ==
    LET keep == SelectSeq([t \in 1..df.n |-> t], LAMBDA t : ~RowHasNaN(df, t))
    IN  [df EXCEPT !.n = Len(keep),
                   !.col = [c \in Columns(df) |->
                               [i \in 1..Len(keep) |-> df.col[c][keep[i]]]]]

\* --------------------------------------------------- feature_engineering.py

compute_log_returns(df) ==
    IF ~Has(df, {K("Close")}) THEN Raise(df, "KeyError")
    ELSE LET c == df.col[K("Close")]
         IN  With(df, K("Log_Returns"),
                  [t \in 1..df.n |-> Ln(Div(c[t], shift(c)[t]))])

compute_z_score(df, window) ==
    IF ~Has(df, {K("Close")}) THEN Raise(df, "KeyError")
    ELSE LET c == df.col[K("Close")]
             mean == rolling_mean(c, window)
             std == rolling_std(c, window)
             d1 == With(df, K("Close_Mean"), mean)
             d2 == With(d1, K("Close_Std"), std)
         IN  With(d2, K("Z_Score_Close"),
                  [t \in 1..df.n |-> Div(Sub(c[t], mean[t]), std[t])])

compute_volatility(df, window) ==
    IF ~Has(df, {K("Close")}) THEN Raise(df, "KeyError")
    ELSE With(df, <<"Volatility_Close", window>>,
              rolling_std(df.col[K("Close")], window))

RECURSIVE compute_multiple_moving_averages(_, _)
compute_multiple_moving_averages(df, windows) ==
    IF windows = <<>> \/ df.err # "" THEN df
    ELSE IF ~Has(df, {K("Close")}) THEN Raise(df, "KeyError")
    ELSE compute_multiple_moving_averages(
             With(df, <<"SMA", Head(windows)>>,
                  rolling_mean(df.col[K("Close")], Head(windows))),
             Tail(windows))

RECURSIVE compute_multiple_exponential_moving_averages(_, _)
compute_multiple_exponential_moving_averages(df, windows) ==
    IF windows = <<>> \/ df.err # "" THEN df
    ELSE IF ~Has(df, {K("Close")}) THEN Raise(df, "KeyError")
    ELSE compute_multiple_exponential_moving_averages(
             With(df, <<"EMA", Head(windows)>>,
                  ewm_mean(df.col[K("Close")], Head(windows))),
             Tail(windows))

compute_bollinger_bands(df, window) ==
    IF ~Has(df, {K("Close")}) THEN Raise(df, "KeyError")
    ELSE LET c == df.col[K("Close")]
             ma == rolling_mean(c, window)
             sd == rolling_std(c, window)
             upper == [t \in 1..df.n |-> Add(ma[t], Mul(Int2Cell(NumStd), sd[t]))]
             lower == [t \in 1..df.n |-> Sub(ma[t], Mul(Int2Cell(NumStd), sd[t]))]
             d1 == With(df, <<"Bollinger_MA", window>>, ma)
             d2 == With(d1, <<"Bollinger_Upper", window>>, upper)
             d3 == With(d2, <<"Bollinger_Lower", window>>, lower)
         IN  With(d3, <<"Bollinger_Width", window>>,
                  [t \in 1..df.n |-> Sub(upper[t], lower[t])])

\* Gains and losses taken the wrong way round.
rsi_values_swapped(close, window) ==
    LET delta == diff(close)
        ups == [t \in 1..Len(close) |-> IF Sign(delta[t]) > 0 THEN delta[t] ELSE Zero]
        downs == [t \in 1..Len(close) |-> Neg(IF Sign(delta[t]) < 0 THEN delta[t] ELSE Zero)]
        gain == rolling_mean(downs, window)
        loss == rolling_mean(ups, window)
    IN  [t \in 1..Len(close) |->
            Sub(Int2Cell(100),
                Div(Int2Cell(100), Add(Int2Cell(1), Div(gain[t], loss[t]))))]

\* Lines 60-64: the RSI column.  delta.where(cond, 0) keeps delta where cond
\* is True and puts 0 elsewhere, the NaN first row included.
rsi_values(close, window) ==
    LET delta == diff(close)
        ups == [t \in 1..Len(close) |-> IF Sign(delta[t]) > 0 THEN delta[t] ELSE Zero]
        downs == [t \in 1..Len(close) |-> Neg(IF Sign(delta[t]) < 0 THEN delta[t] ELSE Zero)]
        gain == rolling_mean(ups, window)
        loss == rolling_mean(downs, window)
    IN  [t \in 1..Len(close) |->
            Sub(Int2Cell(100),
                Div(Int2Cell(100), Add(Int2Cell(1), Div(gain[t], loss[t]))))]

\* Line 67: the z-scored RSI, an array as long as the non-missing RSI values.
z_rsi_values(rsi) == zscore(dropna_series(rsi))

compute_rsi(df, window) ==
    IF ~Has(df, {K("Close")}) THEN Raise(df, "KeyError")
    ELSE LET d1 == With(df, <<"RSI", window>>, rsi_values(df.col[K("Close")], window))
         IN  WithArray(d1, <<"Z_RSI", window>>, z_rsi_values(d1.col[<<"RSI", window>>]))

ATRIntermediates == {K("High-Low"), K("High-Close"), K("Low-Close"), K("TrueRange")}

\* The row maximum with skipna=False: NaN as soon as one value is.
RowMaxNoSkip(cells) ==
    IF \E c \in cells : IsNaN(c) THEN NaN
    ELSE CHOOSE m \in cells : \A c \in cells : ~Less(m, c)

\* DataFrame.max(axis=1): the row maximum over the non-NaN values.
RowMax(cells) ==
    LET present == {c \in cells : ~IsNaN(c)}
    IN  IF present = {} THEN NaN
        ELSE CHOOSE m \in present : \A c \in present : ~Less(m, c)

compute_atr(df, window) ==
    IF ~Has(df, {K("High"), K("Low")}) THEN Raise(df, "KeyError")
    ELSE LET high == df.col[K("High")]
             low == df.col[K("Low")]
             hl == [t \in 1..df.n |-> Sub(high[t], low[t])]
             d1 == With(df, K("High-Low"), hl)
         IN  IF ~Has(df, {K("Close")}) THEN Raise(d1, "KeyError")
             ELSE LET prev == shift(df.col[K("Close")])
                      hc == [t \in 1..df.n |-> Abs(Sub(high[t], prev[t]))]
                      lc == [t \in 1..df.n |-> Abs(Sub(low[t], prev[t]))]
                      tr == [t \in 1..df.n |-> RowMax({hl[t], hc[t], lc[t]})]
                      d2 == With(d1, K("High-Close"), hc)
                      d3 == With(d2, K("Low-Close"), lc)
                      d4 == With(d3, K("TrueRange"), tr)
                      d5 == With(d4, <<"ATR", window>>, rolling_mean(tr, window))
                  IN  drop(d5, ATRIntermediates)

compute_volume_delta(df) ==
    IF ~Has(df, {K("TakerBuyBaseVolume"), K("Volume")}) THEN Raise(df, "KeyError")
    ELSE LET buy == df.col[K("TakerBuyBaseVolume")]
             vol == df.col[K("Volume")]
         IN  With(df, K("Volume_Delta"),
                  [t \in 1..df.n |-> Sub(buy[t], Sub(vol[t], buy[t]))])

compute_order_flow_imbalance(df) ==
    IF ~Has(df, {K("TakerBuyBaseVolume"), K("Volume")}) THEN Raise(df, "KeyError")
    ELSE LET buy == df.col[K("TakerBuyBaseVolume")]
             vol == df.col[K("Volume")]
         IN  With(df, K("OFI"),
                  [t \in 1..df.n |-> Div(Sub(buy[t], Sub(vol[t], buy[t])), vol[t])])

\* ------------------------------------------------------- data_processing.py

\* convert_timestamp_format: parses the Timestamp column when there is one
\* (the same instants, as datetimes) and only warns when there is none.
convert_timestamp_format(df) == df

\* process_crypto_data after the file check: the table it saves, or the
\* table with err set when an exception ends it before the save.
process_crypto_data(raw) ==
    LET d1 == compute_log_returns(convert_timestamp_format(raw))
    IN  IF d1.err # "" THEN d1 ELSE dropna(d1)

\* ------------------------------------------------------------------ inputs

\* Rows of the largest processed table, and the two window sizes the
\* configurations are built from.
MaxRows == 23
WinSmall == 3
WinLarge == 22
\* The end-to-end scenario: 150 rows, close = 100 + t.
ScenarioRows == 150
ScenarioBase == 100
\* process_features defaults: bollinger_windows=[20], rsi_windows=[14]
DefaultBollingerWindow == 20
DefaultRsiWindow == 14
\* Close of the first raw row of the enumerated tables.
Base == 50

RawColumns ==
    {K("Timestamp"), K("Open"), K("High"), K("Low"), K("Close"), K("Volume"),
     K("QuoteAssetVolume"), K("NumberOfTrades"), K("TakerBuyBaseVolume"),
     K("TakerBuyQuoteVolume")}

\* The columns process_features reads.
RequiredColumns ==
    {K("Close"), K("High"), K("Low"), K("Volume"), K("TakerBuyBaseVolume")}

\* Close of raw row t (1-based): a line of the given slope, plus a wiggle on
\* every other row.
ClosePrice(base, slope, wiggle, t) == base + slope * (t - 1) + wiggle * (t % 2)

\* A candle table with the given closes and volumes, less the columns in
\* missing: high and low one above and below the close, 40% taker buys.
TableOf(closes, vols, missing) ==
    LET buy(t) == IF vols[t] = 0 THEN 0 ELSE 4
        cell(c, t) ==
            CASE c = K("Timestamp") -> Int2Cell(t)
              [] c = K("Open") -> Int2Cell(closes[t])
              [] c = K("High") -> Int2Cell(closes[t] + 1)
              [] c = K("Low") -> Int2Cell(closes[t] - 1)
              [] c = K("Close") -> Int2Cell(closes[t])
              [] c = K("Volume") -> Int2Cell(vols[t])
              [] c = K("QuoteAssetVolume") -> Int2Cell(vols[t] * closes[t])
              [] c = K("NumberOfTrades") -> Int2Cell(vols[t])
              [] c = K("TakerBuyBaseVolume") -> Int2Cell(buy(t))
              [] OTHER -> Int2Cell(buy(t) * closes[t])
    IN  [n |-> Len(closes),
         col |-> [c \in RawColumns \ missing |-> [t \in 1..Len(closes) |-> cell(c, t)]],
         err |-> ""]

\* A raw candle file of n rows as fetch_crypto_data_binance saves it.  With
\* zeroVol the last candle traded nothing.
RawTable(n, base, slope, wiggle, zeroVol, missing) ==
    TableOf([t \in 1..n |-> ClosePrice(base, slope, wiggle, t)],
            [t \in 1..n |-> IF zeroVol /\ t = n THEN 0 ELSE 10],
            missing)

\* A feature file left by an earlier run.
StaleTable == [n |-> 0, col |-> [c \in {K("Close")} |-> <<>>], err |-> ""]

NoTable == [n |-> 0, col |-> <<>>, err |-> ""]

Config(sma, ema, bollinger, rsi, atr) ==
    [sma_windows |-> sma, ema_windows |-> ema, bollinger_windows |-> bollinger,
     rsi_windows |-> rsi, atr_windows |-> atr]

Configs ==
    {Config(sma, ema, bollinger, rsi, atr) :
        sma \in {<<>>, <<WinSmall, WinLarge>>},
        ema \in {<<>>, <<WinSmall>>},
        bollinger \in {<<>>, <<1>>, <<WinLarge - 1>>},
        rsi \in {<<>>, <<WinSmall>>},
        atr \in {<<>>, <<WinSmall>>, <<WinSmall, WinLarge + 1>>}}

ScenarioConfig ==
    Config(<<DefaultBollingerWindow>>, <<DefaultBollingerWindow>>,
           <<DefaultBollingerWindow>>, <<DefaultRsiWindow>>, <<DefaultRsiWindow>>)

\* ------------------------------------------------------- process_features

VARIABLES
    raw_file,        \* <symbol>_binance_data.csv: <<>> when absent, else <<table>>
    processed_file,  \* <symbol>_processed.csv
    feature_file,    \* <symbol>_features.csv
    cfg,             \* the window lists process_features is called with
    df,              \* the DataFrame of the running function
    pc,              \* the call about to be made
    i,               \* position in the window list of a per-window loop
    ret,             \* how process_features ended: "" (running), "None", "df", "exception"
    call,            \* the indicator function called directly, and its window
    fetch            \* fetch_crypto_data_binance: its locals and the exchange

vars == <<raw_file, processed_file, feature_file, cfg, df, pc, i, ret, call, fetch>>

Stages ==
    <<"log_returns", "z_score", "volatility", "sma", "ema", "bollinger", "rsi",
      "atr", "ofi", "volume_delta", "dropna", "save">>

StageIndex(stage) == CHOOSE s \in 1..Len(Stages) : Stages[s] = stage

\* How many calls a stage makes: one per window for the three loops.
Calls(c, stage) ==
    CASE stage = "bollinger" -> Len(c.bollinger_windows)
      [] stage = "rsi" -> Len(c.rsi_windows)
      [] stage = "atr" -> Len(c.atr_windows)
      [] OTHER -> 1

\* The first stage after s that makes a call.
RECURSIVE StageFrom(_, _)
StageFrom(c, s) == IF Calls(c, Stages[s]) > 0 THEN s ELSE StageFrom(c, s + 1)

\* The statement that follows call number i of a stage.
Advance ==
    IF i < Calls(cfg, pc) THEN pc' = pc /\ i' = i + 1
    ELSE pc' = Stages[StageFrom(cfg, StageIndex(pc) + 1)] /\ i' = 1

\* One indicator call of process_features: df = f(df), or the exception of f
\* leaves process_features.
Step(d) ==
    /\ df' = d
    /\ IF d.err # "" THEN pc' = "raised" /\ i' = i /\ ret' = "exception"
       ELSE Advance /\ ret' = ret
    /\ UNCHANGED <<raw_file, processed_file, feature_file, cfg, call, fetch>>

\* data_processing.py: process_crypto_data(symbol)
ProcessCryptoData ==
    /\ pc = "clean"
    /\ pc' = "load"
    /\ IF raw_file = <<>> THEN processed_file' = processed_file
       ELSE LET d == process_crypto_data(raw_file[1])
            IN  processed_file' = IF d.err # "" THEN processed_file ELSE <<d>>
    /\ UNCHANGED <<raw_file, feature_file, cfg, df, i, ret, call, fetch>>

\* Lines 113-124 without the existence check: read_csv raises on a missing
\* file.
LoadUnchecked ==
    /\ pc = "load"
    /\ IF processed_file = <<>>
       THEN pc' = "raised" /\ ret' = "exception" /\ df' = df
       ELSE pc' = "log_returns" /\ ret' = ret /\ df' = processed_file[1]
    /\ UNCHANGED <<raw_file, processed_file, feature_file, cfg, i, call, fetch>>

\* Lines 113-124
Load ==
    /\ pc = "load"
    /\ IF processed_file = <<>>
       THEN pc' = "done" /\ ret' = "None" /\ df' = df
       ELSE pc' = "log_returns" /\ ret' = ret /\ df' = processed_file[1]
    /\ UNCHANGED <<raw_file, processed_file, feature_file, cfg, i, call, fetch>>

ComputeLogReturns == pc = "log_returns" /\ Step(compute_log_returns(df))

ComputeZScore == pc = "z_score" /\ Step(compute_z_score(df, ZWindow))

ComputeVolatility == pc = "volatility" /\ Step(compute_volatility(df, ZWindow))

ComputeSMAs == pc = "sma" /\ Step(compute_multiple_moving_averages(df, cfg.sma_windows))

ComputeEMAs ==
    pc = "ema" /\ Step(compute_multiple_exponential_moving_averages(df, cfg.ema_windows))

ComputeBollinger ==
    pc = "bollinger" /\ Step(compute_bollinger_bands(df, cfg.bollinger_windows[i]))

ComputeRSI == pc = "rsi" /\ Step(compute_rsi(df, cfg.rsi_windows[i]))

ComputeATR == pc = "atr" /\ Step(compute_atr(df, cfg.atr_windows[i]))

ComputeOFI == pc = "ofi" /\ Step(compute_order_flow_imbalance(df))

ComputeVolumeDelta == pc = "volume_delta" /\ Step(compute_volume_delta(df))

\* Line 142
DropNa == pc = "dropna" /\ Step(dropna(df))

\* Lines 144-148
Save ==
    /\ pc = "save"
    /\ feature_file' = <<df>>
    /\ ret' = "df"
    /\ pc' = "done"
    /\ UNCHANGED <<raw_file, processed_file, cfg, df, i, call, fetch>>

NoCall == [fn |-> "", w |-> 0]

NoFetch == [pc |-> "idle"]

\* The raw rows enumerated: one (an empty processed table), two, and the
\* lengths around the z-score window up to MaxRows processed rows.
RawRowCounts == {1, 2} \cup (ZWindow .. MaxRows + 1)

\* The runs enumerated: the cleaning stage and then process_features over a
\* raw file (absent, or one of the enumerated candle tables), or
\* process_features alone over a processed table supplied from elsewhere.
Init ==
    /\ df = NoTable
    /\ i = 1
    /\ ret = ""
    /\ call = NoCall
    /\ fetch = NoFetch
    /\ cfg \in Configs \cup {ScenarioConfig}
    /\ \/ /\ pc = "clean"
          /\ processed_file = <<>>
          /\ \/ /\ raw_file = <<>>
                /\ cfg \in Configs
                /\ feature_file \in {<<>>, <<StaleTable>>}
             \/ /\ \E n \in RawRowCounts, slope \in {-1, 0, 1}, wiggle \in {0, 1} :
                       raw_file = <<RawTable(n, Base, slope, wiggle, FALSE, {})>>
                /\ cfg \in Configs
                /\ feature_file = <<>>
             \/ /\ \E n \in RawRowCounts :
                       raw_file = <<RawTable(n, Base, 1, 0, TRUE, {})>>
                /\ cfg \in Configs
                /\ feature_file = <<>>
             \/ /\ raw_file = <<RawTable(ScenarioRows + 1, ScenarioBase - 1, 1, 0, FALSE, {})>>
                /\ cfg = ScenarioConfig
                /\ feature_file = <<>>
       \/ /\ pc = "load"
          /\ raw_file = <<>>
          /\ cfg \in Configs
          /\ \E n \in {0, MaxRows}, missing \in {{}} \cup {{c} : c \in RequiredColumns} :
                 processed_file = <<RawTable(n, Base, 1, 0, FALSE, missing)>>
          /\ feature_file \in {<<>>, <<StaleTable>>}

Next ==
    \/ ProcessCryptoData
    \/ Load
    \/ ComputeLogReturns
    \/ ComputeZScore
    \/ ComputeVolatility
    \/ ComputeSMAs
    \/ ComputeEMAs
    \/ ComputeBollinger
    \/ ComputeRSI
    \/ ComputeATR
    \/ ComputeOFI
    \/ ComputeVolumeDelta
    \/ DropNa
    \/ Save

Spec == Init /\ [][Next]_vars

\* ------------------------------------------- the indicator functions alone

\* Each indicator function called once, directly, with any window up to
\* MaxUnitWin, on every table of at most MaxUnitRows rows whose closes lie
\* in 1..MaxUnitPrice.
MaxUnitRows == 4
MaxUnitWin == 3
MaxUnitPrice == 3

RECURSIVE SeqsUpTo(_, _)
SeqsUpTo(S, n) ==
    IF n = 0 THEN {<<>>}
    ELSE LET shorter == SeqsUpTo(S, n - 1)
         IN  shorter \cup {Append(q, x) : q \in {r \in shorter : Len(r) = n - 1}, x \in S}

UnitTables ==
    {TableOf(closes, [t \in 1..Len(closes) |-> 10], {}) :
        closes \in SeqsUpTo(1..MaxUnitPrice, MaxUnitRows)}

FnInit ==
    /\ raw_file = <<>>
    /\ processed_file = <<>>
    /\ feature_file = <<>>
    /\ cfg = Config(<<>>, <<>>, <<>>, <<>>, <<>>)
    /\ df \in UnitTables
    /\ pc = "unit"
    /\ i = 1
    /\ ret = ""
    /\ call = NoCall
    /\ fetch = NoFetch

\* df = fn(df, window=w), or fn's exception.
Called(fn, w, d) ==
    /\ pc = "unit"
    /\ df' = d
    /\ call' = [fn |-> fn, w |-> w]
    /\ pc' = IF d.err # "" THEN "raised" ELSE "returned"
    /\ UNCHANGED <<raw_file, processed_file, feature_file, cfg, i, ret, fetch>>

CallZScore == \E w \in 1..MaxUnitWin : Called("compute_z_score", w, compute_z_score(df, w))

CallVolatility ==
    \E w \in 1..MaxUnitWin : Called("compute_volatility", w, compute_volatility(df, w))

CallSMA ==
    \E w \in 1..MaxUnitWin :
        Called("compute_multiple_moving_averages", w,
               compute_multiple_moving_averages(df, <<w>>))

CallEMA ==
    \E w \in 1..MaxUnitWin :
        Called("compute_multiple_exponential_moving_averages", w,
               compute_multiple_exponential_moving_averages(df, <<w>>))

CallBollinger ==
    \E w \in 1..MaxUnitWin :
        Called("compute_bollinger_bands", w, compute_bollinger_bands(df, w))

CallRSI == \E w \in 1..MaxUnitWin : Called("compute_rsi", w, compute_rsi(df, w))

CallATR == \E w \in 1..MaxUnitWin : Called("compute_atr", w, compute_atr(df, w))

FnNext ==
    \/ CallZScore
    \/ CallVolatility
    \/ CallSMA
    \/ CallEMA
    \/ CallBollinger
    \/ CallRSI
    \/ CallATR

FnSpec == FnInit /\ [][FnNext]_vars

\* --------------------------------------------------------- data_fetching.py

\* Open times run over 0..MaxTime; a request returns at most FetchLimit
\* candles (the code asks for 1000); at most MaxSymbols symbols are fetched.
MaxTime == 4
FetchLimit == 2
MaxSymbols == 2

\* The strictly increasing sequences of 1..limit elements of S.
RECURSIVE Ascending(_, _)
Ascending(S, limit) ==
    IF limit = 0 THEN {}
    ELSE {<<x>> : x \in S}
            \cup UNION {{<<x>> \o rest : rest \in Ascending({y \in S : y > x}, limit - 1)} :
                           x \in S}

\* What the exchange may answer to a request: candles it holds with an open
\* time from startTime to endTime, oldest first, at most the limit.
Responses(candles, startTime, endTime) ==
    Ascending({c \in candles : startTime <= c /\ c <= endTime}, FetchLimit)

\* The request's startTime with no step past the last candle.
NextStartSame(data) == data[Len(data)]

\* Line 54: data[-1][0] + 1
NextStart(data) == data[Len(data)] + 1

FetchInit ==
    /\ raw_file = <<>>
    /\ processed_file = <<>>
    /\ feature_file = <<>>
    /\ cfg = Config(<<>>, <<>>, <<>>, <<>>, <<>>)
    /\ df = NoTable
    /\ pc = "fetch"
    /\ i = 1
    /\ ret = ""
    /\ call = NoCall
    /\ \E nsym \in 1..MaxSymbols, st \in 0..MaxTime, en \in 0..MaxTime :
          fetch = [pc |-> "symbol", symbols |-> nsym, symbol |-> 1,
                   start_timestamp |-> st, end_timestamp |-> en,
                   candles |-> {}, startTime |-> st, last_fetched_timestamp |-> st,
                   all_data |-> <<>>, saved |-> {}]

Others == <<raw_file, processed_file, feature_file, cfg, df, pc, i, ret, call>>

\* Lines 30-41: the next symbol, or line 99 after the last.
FetchSymbol ==
    /\ fetch.pc = "symbol"
    /\ IF fetch.symbol > fetch.symbols
       THEN fetch' = [fetch EXCEPT !.pc = "returned"]
       ELSE \E held \in SUBSET (0..MaxTime) :
               fetch' = [fetch EXCEPT !.pc = "loop",
                                      !.candles = held,
                                      !.startTime = fetch.start_timestamp,
                                      !.last_fetched_timestamp = fetch.start_timestamp,
                                      !.all_data = <<>>]
    /\ UNCHANGED Others

\* Lines 43-57: one request that returns candles.
FetchPage ==
    /\ fetch.pc = "loop"
    /\ fetch.last_fetched_timestamp < fetch.end_timestamp
    /\ \E data \in Responses(fetch.candles, fetch.startTime, fetch.end_timestamp) :
          fetch' = [fetch EXCEPT !.all_data = fetch.all_data \o data,
                                 !.last_fetched_timestamp = NextStart(data),
                                 !.startTime = NextStart(data)]
    /\ UNCHANGED Others

\* Lines 49-51: an empty answer ends the loop.
FetchEmpty ==
    /\ fetch.pc = "loop"
    /\ fetch.last_fetched_timestamp < fetch.end_timestamp
    /\ fetch' = [fetch EXCEPT !.pc = "after"]
    /\ UNCHANGED Others

\* Lines 59-61: a failed request ends the loop.
FetchError ==
    /\ fetch.pc = "loop"
    /\ fetch.last_fetched_timestamp < fetch.end_timestamp
    /\ fetch' = [fetch EXCEPT !.pc = "after"]
    /\ UNCHANGED Others

\* Line 43: the loop condition fails.
FetchLoopEnd ==
    /\ fetch.pc = "loop"
    /\ ~(fetch.last_fetched_timestamp < fetch.end_timestamp)
    /\ fetch' = [fetch EXCEPT !.pc = "after"]
    /\ UNCHANGED Others

\* Lines 63-97: nothing fetched skips the symbol, else its rows (all_data)
\* are saved; saved holds the symbols with a file.
FetchSave ==
    /\ fetch.pc = "after"
    /\ fetch' = [fetch EXCEPT !.pc = "symbol",
                              !.symbol = fetch.symbol + 1,
                              !.saved = IF fetch.all_data = <<>> THEN fetch.saved
                                        ELSE fetch.saved \cup {fetch.symbol}]
    /\ UNCHANGED Others

FetchNext ==
    \/ FetchSymbol
    \/ FetchPage
    \/ FetchEmpty
    \/ FetchError
    \/ FetchLoopEnd
    \/ FetchSave

\* The function runs on: a started call makes its next step.
FetchSpec == FetchInit /\ [][FetchNext]_vars /\ WF_vars(FetchNext)

\* ---------------------------------------------------------- claims: FetchSpec

StrictlyIncreasing(q) == \A j \in 1..(Len(q) - 1) : q[j] < q[j + 1]

IntOf(c) == c.n

\* Upward and downward move of the closes x into row s (none into the first).
UpMove(x, s) ==
    IF s > 1 /\ IntOf(x[s]) > IntOf(x[s - 1]) THEN IntOf(x[s]) - IntOf(x[s - 1]) ELSE 0

DownMove(x, s) ==
    IF s > 1 /\ IntOf(x[s]) < IntOf(x[s - 1]) THEN IntOf(x[s - 1]) - IntOf(x[s]) ELSE 0

RECURSIVE SumOver(_, _, _)
SumOver(f(_), lo, hi) == IF lo > hi THEN 0 ELSE f(lo) + SumOver(f, lo + 1, hi)

\* w times the rolling mean gain / loss over the w rows ending at row t.
GainSum(x, w, t) == LET up(s) == UpMove(x, s) IN SumOver(up, t - w + 1, t)

LossSum(x, w, t) == LET down(s) == DownMove(x, s) IN SumOver(down, t - w + 1, t)

InZeroToHundred(c) == IsNum(c) /\ 0 <= c.n /\ c.n <= 100 * c.d

RsiCalled == call.fn = "compute_rsi"

\* C3 (as claimed): compute_rsi returns; Z_RSI_w has the table's length, is
\* undefined exactly where RSI_w is, and elsewhere holds the global
\* population z-score of the non-missing RSI_w values, at their own rows.
C3_ZRsiAligned ==
    RsiCalled =>
        /\ df.err = ""
        /\ <<"Z_RSI", call.w>> \in Columns(df)
        /\ LET r == df.col[<<"RSI", call.w>>]
               z == df.col[<<"Z_RSI", call.w>>]
               vals == z_rsi_values(r)
               rank(t) == Len(dropna_series(SubSeq(r, 1, t)))
           IN  /\ Len(z) = df.n
               /\ \A t \in 1..df.n :
                     IF IsNaN(r[t]) THEN IsNaN(z[t]) ELSE z[t] = vals[rank(t)]

\* C4 (as claimed): at every row t >= w-1, RSI_w lies in [0, 100] when the
\* rolling mean loss is positive, and is 100 when the rolling mean loss is 0.
C4_RsiHundredWhenNoLoss ==
    RsiCalled =>
        LET x == df.col[K("Close")]
            r == df.col[<<"RSI", call.w>>]
        IN  \A t \in call.w .. df.n :
                IF LossSum(x, call.w, t) > 0 THEN InZeroToHundred(r[t])
                ELSE r[t] = Int2Cell(100)

\* C4 (amended): at every row t >= w-1, RSI_w lies in [0, 100] when the
\* rolling mean loss is positive; when it is 0, RSI_w is 100 if the rolling
\* mean gain is positive and undefined (NaN, 0/0) if that is 0 too.
C4_RsiBounds ==
    RsiCalled =>
        LET x == df.col[K("Close")]
            r == df.col[<<"RSI", call.w>>]
        IN  \A t \in call.w .. df.n :
                IF LossSum(x, call.w, t) > 0 THEN InZeroToHundred(r[t])
                ELSE IF GainSum(x, call.w, t) > 0 THEN r[t] = Int2Cell(100)
                ELSE IsNaN(r[t])

\* One call that meets a flat window (RSI undefined), a window of gains only
\* (RSI 100) and a window with a loss (RSI 0), all past the warm-up.
C4_Witness ==
    /\ RsiCalled
    /\ call.w = 1
    /\ df.col[K("Close")] = <<Int2Cell(1), Int2Cell(2), Int2Cell(1), Int2Cell(1)>>
    /\ df.col[<<"RSI", 1>>] = <<NaN, Int2Cell(100), Int2Cell(0), NaN>>

MeanColumns ==
    CASE call.fn = "compute_z_score" -> {K("Close_Mean")}
      [] call.fn = "compute_multiple_moving_averages" -> {<<"SMA", call.w>>}
      [] call.fn = "compute_bollinger_bands" -> {<<"Bollinger_MA", call.w>>}
      [] OTHER -> {}

StdColumns ==
    CASE call.fn = "compute_z_score" -> {K("Close_Std")}
      [] call.fn = "compute_volatility" -> {<<"Volatility_Close", call.w>>}
      [] OTHER -> {}

\* Undefined in rows 0..w-2, defined from row w-1 on.
WarmUpShape(c, w) == \A t \in 1..df.n : IsNaN(df.col[c][t]) <=> t < w

\* From row w-1 on, the mean of the w closes ending at the row itself.
TrailingMean(c, w) ==
    LET close(s) == IntOf(df.col[K("Close")][s])
    IN  \A t \in w..df.n : df.col[c][t] = Rat(SumOver(close, t - w + 1, t), w)

\* C5 (as claimed): for every window w >= 1 and n >= w, the rolling mean and
\* the rolling sample standard deviation are undefined in rows 0..w-2 and
\* defined from row w-1 on, over the trailing window that ends at the row.
C5_WarmUpEveryWindow ==
    df.n >= call.w =>
        /\ \A c \in MeanColumns : WarmUpShape(c, call.w) /\ TrailingMean(c, call.w)
        /\ \A c \in StdColumns : WarmUpShape(c, call.w)

\* C5 (amended): the same for the rolling mean for every w >= 1 and for the
\* rolling sample standard deviation for every w >= 2; with w = 1 the sample
\* standard deviation (one observation, ddof 1) is undefined in every row.
C5_WarmUp ==
    df.n >= call.w =>
        /\ \A c \in MeanColumns : WarmUpShape(c, call.w) /\ TrailingMean(c, call.w)
        /\ \A c \in StdColumns :
              IF call.w >= 2 THEN WarmUpShape(c, call.w)
              ELSE \A t \in 1..df.n : IsNaN(df.col[c][t])

\* A rolling mean and a rolling deviation past their warm-up, and the
\* one-row window.
C5_Witness ==
    /\ call.fn = "compute_z_score"
    /\ call.w = 1
    /\ df.n = 3
    /\ ~IsNaN(df.col[K("Close_Mean")][1])
    /\ IsNaN(df.col[K("Close_Std")][3])

EmaCalled == call.fn = "compute_multiple_exponential_moving_averages"

\* C6: EMA_w[0] = x[0]; EMA_w[t] = a x[t] + (1 - a) EMA_w[t-1] with
\* a = 2/(w+1) for t >= 1, stated as (w+1) EMA[t] = 2 x[t] + (w-1) EMA[t-1];
\* EMA_w is defined in every row.
C6_EmaRecurrence ==
    EmaCalled =>
        LET x == df.col[K("Close")]
            y == df.col[<<"EMA", call.w>>]
        IN  /\ df.err = ""
            /\ Len(y) = Len(x)
            /\ \A t \in 1..Len(x) : IsNum(y[t])
            /\ Len(x) >= 1 => y[1] = x[1]
            /\ \A t \in 2..Len(x) :
                  Mul(Int2Cell(call.w + 1), y[t])
                    = Add(Mul(Int2Cell(2), x[t]), Mul(Int2Cell(call.w - 1), y[t - 1]))

C6_Witness ==
    /\ EmaCalled
    /\ call.w = 2
    /\ df.n = 3
    /\ df.col[K("Close")] = <<Int2Cell(1), Int2Cell(3), Int2Cell(2)>>
    /\ df.col[<<"EMA", 2>>] = <<Int2Cell(1), Rat(7, 3), Rat(19, 9)>>

\* -------------------------------------------------------------- claims: Spec

\* The table process_features loads.
Input == processed_file[1]

Finished == pc \in {"done", "raised"}

Returned == pc = "done" /\ ret = "df"

Range(q) == {q[j] : j \in 1..Len(q)}

MaxOf(S) == CHOOSE m \in S : \A x \in S : x <= m

\* Every rolling window of a run: the fixed one of the z-score and the
\* volatility, and the requested ones (EMA has no window to fill).
RollingWindows(c) ==
    {ZWindow} \cup Range(c.sma_windows) \cup Range(c.bollinger_windows)
              \cup Range(c.rsi_windows) \cup Range(c.atr_windows)

\* The longest warm-up: a window w leaves w-1 undefined rows.
MaxWarmUp(c) == MaxOf(RollingWindows(c)) - 1

\* No division by zero: every candle traded, no ZWindow consecutive closes
\* are all equal (a zero rolling deviation), and no Bollinger window is 1 (the
\* sample deviation of one observation is 0/0).
NoDegenerate(tbl, c) ==
    /\ \A t \in 1..tbl.n : ~IsZero(tbl.col[K("Volume")][t])
    /\ \A t \in ZWindow..tbl.n :
          \E s \in (t - ZWindow + 1)..t : tbl.col[K("Close")][s] # tbl.col[K("Close")][t]
    /\ 1 \notin Range(c.bollinger_windows)

C2_ScenarioRows ==
    (cfg = ScenarioConfig /\ Finished) =>
        /\ ret = "df"
        /\ feature_file # <<>>
        /\ feature_file[1].n = ScenarioRows - DefaultBollingerWindow

\* The feature file as the run found it.
Untouched == feature_file \in {<<>>, <<StaleTable>>}

\* C7 (as claimed): a missing processed file, an absent required column or an
\* empty table ends the run without a returned table and without the feature
\* file created or overwritten.
C7_FailFast ==
    (Finished /\ (\/ processed_file = <<>>
                  \/ ~(RequiredColumns \subseteq Columns(Input))
                  \/ Input.n = 0)) =>
        ret \in {"None", "exception"} /\ Untouched

\* The columns a run reads: High and Low only in compute_atr.
ReadColumns(c) ==
    {K("Close"), K("Volume"), K("TakerBuyBaseVolume")}
        \cup (IF c.atr_windows = <<>> THEN {} ELSE {K("High"), K("Low")})

\* C7 (amended): a missing processed file ends the run with None, and an
\* absent column that the run reads (High and Low only when atr_windows is
\* not empty) ends it with an exception, in both cases with the feature file
\* neither created nor overwritten.  An empty table is not rejected: when the
\* columns read are there, the run writes and returns a table of no rows.
C7_NoOutputOnMissingInput ==
    Finished =>
        /\ processed_file = <<>> => ret = "None" /\ Untouched
        /\ (processed_file # <<>> /\ ~(ReadColumns(cfg) \subseteq Columns(Input))) =>
              ret = "exception" /\ Untouched
        /\ (processed_file # <<>> /\ ReadColumns(cfg) \subseteq Columns(Input)
              /\ Input.n = 0) =>
              ret = "df" /\ feature_file = <<df>> /\ df.n = 0

\* An empty table without its High column, and no ATR requested: the run
\* overwrites the feature file.
C7_Witness ==
    /\ Returned
    /\ Input.n = 0
    /\ K("High") \notin Columns(Input)
    /\ feature_file = <<df>>

BeforeTrim ==
    {"log_returns", "z_score", "volatility", "sma", "ema", "bollinger", "rsi",
     "atr", "ofi", "volume_delta"}

\* The columns a configuration adds.
FeatureColumns(c) ==
    {K("Log_Returns"), K("Close_Mean"), K("Close_Std"), K("Z_Score_Close"),
     <<"Volatility_Close", ZWindow>>, K("OFI"), K("Volume_Delta")}
        \cup {<<"SMA", w>> : w \in Range(c.sma_windows)}
        \cup {<<"EMA", w>> : w \in Range(c.ema_windows)}
        \cup {<<name, w>> : name \in {"Bollinger_MA", "Bollinger_Upper",
                                      "Bollinger_Lower", "Bollinger_Width"},
                            w \in Range(c.bollinger_windows)}
        \cup {<<name, w>> : name \in {"RSI", "Z_RSI"}, w \in Range(c.rsi_windows)}
        \cup {<<"ATR", w>> : w \in Range(c.atr_windows)}

\* One step of process_features that keeps the rows, keeps every column it
\* found except those in recomputed, and leaves no ATR intermediate; the trim
\* removes rows only; the table saved has the input's columns and the
\* configured ones.
FrameStep(recomputed) ==
    /\ pc \in BeforeTrim =>
          /\ df'.n = df.n
          /\ Columns(df) \subseteq Columns(df')
          /\ \A c \in Columns(df) \ recomputed : df'.col[c] = df.col[c]
          /\ Columns(df') \cap ATRIntermediates = {}
    /\ pc = "dropna" => Columns(df') = Columns(df) /\ df'.n <= df.n
    /\ pc = "save" =>
          Columns(feature_file'[1]) = Columns(Input) \cup FeatureColumns(cfg)

\* C8 (as claimed): every step before the final trim leaves the row count and
\* the values of all columns already present unchanged and only adds columns;
\* no ATR intermediate stays; the output has the input's columns plus the
\* configured feature columns.
C8_StepsOnlyAddColumns == [][FrameStep({})]_vars

\* C8 (amended): the same, except that the first step recomputes Log_Returns
\* when the input already has that column (the cleaning stage saves it): its
\* first row, defined in the input, becomes undefined.
C8_StepsOnlyAddColumnsButLogReturns ==
    [][FrameStep(IF pc = "log_returns" THEN {K("Log_Returns")} ELSE {})]_vars

\* A run over a cleaned table (Log_Returns already there) with two ATR
\* windows that returns rows.
C8_Witness ==
    /\ Returned
    /\ K("Log_Returns") \in Columns(Input)
    /\ Len(cfg.atr_windows) = 2
    /\ Len(cfg.bollinger_windows) = 1
    /\ feature_file[1].n >= 1

AllClosesEqual(tbl) ==
    /\ K("Close") \in Columns(tbl)
    /\ tbl.n >= 1
    /\ \A t \in 1..tbl.n : tbl.col[K("Close")][t] = tbl.col[K("Close")][1]

\* C9 (as claimed): on closes that are all equal the run raises nothing;
\* Log_Returns is 0 from the second row on, the rolling deviation is 0 where
\* defined, and Z_Score_Close is undefined (0/0) there.
C9_ConstantSeries ==
    (processed_file # <<>> /\ AllClosesEqual(Input) /\ pc \notin {"clean", "load"}) =>
        /\ pc # "raised"
        /\ (pc \in BeforeTrim \cup {"dropna"} /\ pc # "log_returns") =>
              \A t \in 2..df.n : df.col[K("Log_Returns")][t] = Zero
        /\ (pc \in BeforeTrim \cup {"dropna"} /\ pc \notin {"log_returns", "z_score"}) =>
              \A t \in 1..df.n :
                  /\ IsNaN(df.col[K("Close_Std")][t]) \/ df.col[K("Close_Std")][t] = Zero
                  /\ IsNaN(df.col[K("Z_Score_Close")][t])

====
